---- MODULE Spec2Model ----
(***************************************************************************)
(* One-off map/reduce jobs over explorations                               *)
(* (core/domain/exp_jobs_one_off.py).                                      *)
(*                                                                         *)
(* A behaviour is one run of one job: the engine scans the stored records  *)
(* of the job's kind in turn, calling map on each; it then groups the      *)
(* emitted pairs by key and calls reduce once per key.  Every map and      *)
(* reduce of the file is an operator below, translated branch by branch.   *)
(* What the collaborators return for a record (does it load, does it       *)
(* validate, which migration step raises, which errors the html checks     *)
(* find) is an input of the map step, drawn from a small set.              *)
(***************************************************************************)
EXTENDS Integers, Sequences, FiniteSets, TLC

\* Number of stored records the job scans.
MaxRecords == 2
\* Stand-in for feconf.CURRENT_STATE_SCHEMA_VERSION.
CURRENT_STATE_SCHEMA_VERSION == 2
\* Number of states of an exploration.
NumStates == 2
\* Stand-in for feconf.MAX_SIZE_OF_MATH_SVGS_BATCH_BYTES.
MAX_SIZE_OF_MATH_SVGS_BATCH_BYTES == 2

Ids == 1..MaxRecords
Versions == 0..(CURRENT_STATE_SCHEMA_VERSION + 1)
Times == 1..MaxRecords
StateNames == 1..NumStates

ACTIVITY_STATUS_PUBLIC == "public"
ACTIVITY_STATUS_PRIVATE == "private"
MIGRATION_BOT_USERNAME == "OppiaMigrationBot"
CMD_MIGRATE_STATES_SCHEMA_TO_LATEST_VERSION == "migrate_states_schema_to_latest_version"
_SUCCESS_KEY == <<"exploration-with-math-tags">>

FirstPublishedJob == "ExplorationFirstPublishedOneOffJob"
ValidityJob == "ExplorationValidityJobManager"
MigrationAuditJob == "ExplorationMigrationAuditJob"
MigrationJob == "ExplorationMigrationJobManager"
MathSvgFilenameJob == "ExplorationMathSvgFilenameValidationOneOffJob"
MockMathMigrationJob == "ExplorationMockMathMigrationOneOffJob"
MathInfoGenerationJob == "ExplorationMathRichTextInfoModelGenerationOneOffJob"
MathInfoDeletionJob == "ExplorationMathRichTextInfoModelDeletionOneOffJob"
ViewableAuditJob == "ViewableExplorationsAuditJob"
HintsAuditJob == "HintsAuditOneOffJob"
CKEditorJob == "ExplorationContentValidationJobForCKEditor"
RTEJob == "RTECustomizationArgsValidationOneOffJob"

Jobs ==
    {FirstPublishedJob, ValidityJob, MigrationAuditJob, MigrationJob,
     MathSvgFilenameJob, MockMathMigrationJob, MathInfoGenerationJob,
     MathInfoDeletionJob, ViewableAuditJob, HintsAuditJob, CKEditorJob, RTEJob}

\* The jobs whose entity_classes_to_map_over is ExplorationModel.
ExplorationModelJobs == Jobs \ {FirstPublishedJob, MathInfoDeletionJob}

-----------------------------------------------------------------------------
(* Python strings are sequences of tokens; a decimal digit is one token.   *)

Digit == <<"0", "1", "2", "3", "4", "5", "6", "7", "8", "9">>

RECURSIVE UNICODE(_)
\* python_utils.UNICODE(n) / '%s' % n / '%d' % n of a non-negative integer.
UNICODE(n) ==
    IF n < 10 THEN <<Digit[n + 1]>>
    ELSE UNICODE(n \div 10) \o <<Digit[(n % 10) + 1]>>

DigitValue(d) == CHOOSE k \in 0..9 : Digit[k + 1] = d

RECURSIVE literal_eval(_)
\* ast.literal_eval of the decimal string of a non-negative integer.
literal_eval(s) ==
    IF Len(s) = 1 THEN DigitValue(s[1])
    ELSE 10 * literal_eval(SubSeq(s, 1, Len(s) - 1)) + DigitValue(s[Len(s)])

\* str.find(token): 0-based position of the first occurrence, -1 if none.
find(s, token) ==
    IF \E i \in 1..Len(s) : s[i] = token
    THEN (CHOOSE i \in 1..Len(s) :
              s[i] = token /\ \A j \in 1..(i - 1) : s[j] # token) - 1
    ELSE 0 - 1

\* s[:n] and s[n:] with Python's treatment of a negative n.
SliceTo(s, n) ==
    LET m == IF n < 0 THEN Len(s) + n ELSE n
        k == IF m < 0 THEN 0 ELSE IF m > Len(s) THEN Len(s) ELSE m
    IN  SubSeq(s, 1, k)

SliceFrom(s, n) ==
    LET m == IF n < 0 THEN Len(s) + n ELSE n
        k == IF m < 0 THEN 0 ELSE IF m > Len(s) THEN Len(s) ELSE m
    IN  SubSeq(s, k + 1, Len(s))

\* utils.get_time_in_millisecs of a creation time given in seconds.
get_time_in_millisecs(created_on) == created_on * 1000

RECURSIVE SeqSum(_)
SeqSum(s) == IF s = <<>> THEN 0 ELSE Head(s) + SeqSum(Tail(s))

RECURSIVE SeqMin(_)
SeqMin(s) ==
    IF Len(s) = 1 THEN s[1]
    ELSE LET m == SeqMin(Tail(s)) IN IF s[1] < m THEN s[1] ELSE m

RECURSIVE Concat(_)
\* ''.join / flattening of a sequence of sequences.
Concat(ss) == IF ss = <<>> THEN <<>> ELSE Head(ss) \o Concat(Tail(ss))

RECURSIVE SelectIndices(_, _)
\* The indices i of 1..n, in increasing order, for which keep[i] holds.
SelectIndices(n, keep) ==
    IF n = 0 THEN <<>>
    ELSE IF keep[n] THEN Append(SelectIndices(n - 1, keep), n)
    ELSE SelectIndices(n - 1, keep)

-----------------------------------------------------------------------------
(* Stored records and the collaborators' answers for a record.             *)

\* The records a job scans.  A field the job's map never reads is held at
\* one value.
ItemsFor(j, i) ==
    IF j = FirstPublishedJob
    THEN {[id |-> i, deleted |-> d,
           states_schema_version |-> CURRENT_STATE_SCHEMA_VERSION,
           status |-> s, created_on |-> t, exp_id |-> e] :
             d \in BOOLEAN,
             s \in {ACTIVITY_STATUS_PUBLIC, ACTIVITY_STATUS_PRIVATE},
             t \in Times, e \in Ids}
    ELSE {[id |-> i, deleted |-> d, states_schema_version |-> v,
           status |-> ACTIVITY_STATUS_PUBLIC, created_on |-> 1, exp_id |-> i] :
             d \in BOOLEAN,
             v \in IF j \in {MigrationAuditJob, MigrationJob}
                   THEN Versions ELSE {CURRENT_STATE_SCHEMA_VERSION}}

ErrKeys == <<"invalidTags", "strings">>
ErrLists == {<<>>, <<<<"err a">>>>, <<<<"err a">>, <<"err b">>>>}
LatexLists == {<<>>, <<<<"x">>>>, <<<<"x">>, <<"y", "y">>>>}

DefaultInp ==
    [loadable |-> TRUE, valid |-> TRUE, strict_valid |-> TRUE,
     rights_exists |-> TRUE, rights_status |-> ACTIVITY_STATUS_PUBLIC,
     viewable_if_private |-> FALSE, fails |-> {},
     state_errs |-> [s \in StateNames |-> 0], latex |-> <<>>,
     err_dict |-> [k \in 1..Len(ErrKeys) |-> <<>>]]

Unloadable == [DefaultInp EXCEPT !.loadable = FALSE]
RightsMissing == [DefaultInp EXCEPT !.rights_exists = FALSE]
Statuses == {ACTIVITY_STATUS_PUBLIC, ACTIVITY_STATUS_PRIVATE}
StateErrs == [StateNames -> 0..1]

\* What the collaborators could answer when asked about item.  The maps of
\* the first-published and the deletion job call no collaborator that can
\* answer in more than one way.
InputsFor(j, item) ==
    IF j \in {FirstPublishedJob, MathInfoDeletionJob}
    THEN {DefaultInp}
    ELSE CASE j = ValidityJob ->
                {Unloadable, RightsMissing}
                \cup {[DefaultInp EXCEPT !.rights_status = ACTIVITY_STATUS_PRIVATE,
                                         !.valid = b, !.strict_valid = FALSE] :
                        b \in BOOLEAN}
                \cup {[DefaultInp EXCEPT !.strict_valid = b] : b \in BOOLEAN}
           [] j = MigrationAuditJob ->
                {DefaultInp}
                \cup {[DefaultInp EXCEPT !.fails = {w}] :
                        w \in item.states_schema_version..
                                  (CURRENT_STATE_SCHEMA_VERSION - 1)}
           [] j = MigrationJob ->
                {Unloadable, DefaultInp,
                 [DefaultInp EXCEPT !.valid = FALSE, !.strict_valid = FALSE]}
           [] j \in {MathSvgFilenameJob, HintsAuditJob} ->
                {Unloadable}
                \cup {[DefaultInp EXCEPT !.state_errs = se] : se \in StateErrs}
           [] j = MockMathMigrationJob ->
                {Unloadable, RightsMissing}
                \cup {[DefaultInp EXCEPT !.state_errs = se, !.rights_status = s] :
                        se \in StateErrs, s \in Statuses}
           [] j = MathInfoGenerationJob ->
                {Unloadable,
                 [DefaultInp EXCEPT !.valid = FALSE, !.strict_valid = FALSE]}
                \cup {[DefaultInp EXCEPT !.latex = l] : l \in LatexLists}
           [] j = ViewableAuditJob ->
                {RightsMissing}
                \cup {[DefaultInp EXCEPT !.rights_status = s,
                                         !.viewable_if_private = b] :
                        s \in Statuses, b \in BOOLEAN}
           [] j \in {CKEditorJob, RTEJob} ->
                {Unloadable}
                \cup {[DefaultInp EXCEPT !.err_dict = ed] :
                        ed \in [1..Len(ErrKeys) -> ErrLists]}

-----------------------------------------------------------------------------
(* The result of one map call.                                             *)
(*   emits   the (key, value) pairs yielded, in order                      *)
(*   raised  an exception left the call                                    *)
(*   logs    the messages logged                                           *)
(*   writes  the exp_services.update_exploration calls made                *)
(*   deletes item.delete() was called                                      *)
(*   steps   the versions update_states_from_model was called with         *)
(*   calls   the collaborators called, in order                            *)

NoResult ==
    [emits |-> <<>>, raised |-> FALSE, logs |-> <<>>, writes |-> <<>>,
     deletes |-> FALSE, steps |-> <<>>, calls |-> <<>>]

Emit(k, v) == [key |-> k, value |-> v]

Raise(calls) == [NoResult EXCEPT !.raised = TRUE, !.calls = calls]

-----------------------------------------------------------------------------
(* ExplorationFirstPublishedOneOffJob                                      *)

ExplorationFirstPublishedOneOffJob_map(item, inp) ==
    IF item.status = ACTIVITY_STATUS_PUBLIC
    THEN [NoResult EXCEPT
            !.emits = <<Emit(UNICODE(item.exp_id),
                             get_time_in_millisecs(item.created_on))>>]
    ELSE NoResult

-----------------------------------------------------------------------------
(* ExplorationValidityJobManager                                           *)

ExplorationValidityJobManager_map(item, inp) ==
    IF item.deleted THEN NoResult
    ELSE IF ~inp.loadable THEN Raise(<<"get_exploration_from_model">>)
    ELSE IF ~inp.rights_exists
    THEN Raise(<<"get_exploration_from_model", "get_exploration_rights">>)
    ELSE LET passes == IF inp.rights_status = ACTIVITY_STATUS_PRIVATE
                       THEN inp.valid ELSE inp.strict_valid
             calls == <<"get_exploration_from_model", "get_exploration_rights",
                        "validate">>
         IN  IF passes THEN [NoResult EXCEPT !.calls = calls]
             ELSE [NoResult EXCEPT
                     !.calls = calls,
                     !.emits = <<Emit(UNICODE(item.id), <<"ValidationError">>)>>]

-----------------------------------------------------------------------------
(* ExplorationMigrationAuditJob                                            *)

MigrationErrorMessage(item, states_schema_version) ==
    <<"Exploration", " ">> \o UNICODE(item.id)
        \o <<" ", "failed migration to states v">>
        \o UNICODE(states_schema_version + 1) \o <<":", " ", "e">>

RECURSIVE MigrationAuditLoop(_, _, _, _)
\* The while loop of the map: acc is the result so far.  The check for
\* SUCCESS is the last statement of the loop body.
MigrationAuditLoop(item, inp, states_schema_version, acc) ==
    IF states_schema_version < CURRENT_STATE_SCHEMA_VERSION
    THEN LET called == [acc EXCEPT
                          !.steps = Append(@, states_schema_version),
                          !.calls = Append(@, "update_states_from_model")]
         IN  IF states_schema_version \in inp.fails
             THEN LET error_message ==
                          MigrationErrorMessage(item, states_schema_version)
                  IN  [called EXCEPT
                         !.logs = Append(@, error_message),
                         !.emits = Append(@, Emit(<<"MIGRATION_ERROR">>,
                                                  error_message))]
             ELSE MigrationAuditLoop(
                      item, inp, states_schema_version + 1,
                      IF states_schema_version + 1 = CURRENT_STATE_SCHEMA_VERSION
                      THEN [called EXCEPT
                              !.emits = Append(@, Emit(<<"SUCCESS">>, 1))]
                      ELSE called)
    ELSE acc

RECURSIVE MigrationAuditLoopNoBreak(_, _, _, _)
\* Mutant: the except branch does not break out of the loop.
MigrationAuditLoopNoBreak(item, inp, states_schema_version, acc) ==
    IF states_schema_version < CURRENT_STATE_SCHEMA_VERSION
    THEN LET called == [acc EXCEPT
                          !.steps = Append(@, states_schema_version),
                          !.calls = Append(@, "update_states_from_model")]
             error_message == MigrationErrorMessage(item, states_schema_version)
             next == states_schema_version + 1
         IN  MigrationAuditLoopNoBreak(
                 item, inp, next,
                 IF states_schema_version \in inp.fails
                 THEN [called EXCEPT
                         !.logs = Append(@, error_message),
                         !.emits = Append(@, Emit(<<"MIGRATION_ERROR">>,
                                                  error_message))]
                 ELSE IF next = CURRENT_STATE_SCHEMA_VERSION
                 THEN [called EXCEPT !.emits = Append(@, Emit(<<"SUCCESS">>, 1))]
                 ELSE called)
    ELSE acc

\* Mutant: the SUCCESS check follows the loop instead of ending its body,
\* and compares the record's own version.
ExplorationMigrationAuditJob_map_SuccessAfterLoop(item, inp) ==
    IF item.deleted THEN NoResult
    ELSE LET r == MigrationAuditLoop(item, inp, item.states_schema_version,
                                     NoResult)
         IN  IF item.states_schema_version < CURRENT_STATE_SCHEMA_VERSION
             THEN [r EXCEPT
                     !.emits = IF \E i \in 1..Len(@) : @[i].key = <<"SUCCESS">>
                               THEN @ ELSE Append(@, Emit(<<"SUCCESS">>, 1))]
             ELSE r

\* Mutant: the migrated version is assigned to the record and saved.
ExplorationMigrationAuditJob_map_Commits(item, inp) ==
    IF item.deleted THEN NoResult
    ELSE LET r == MigrationAuditLoop(item, inp, item.states_schema_version,
                                     NoResult)
         IN  IF Len(r.steps) > 0
             THEN [r EXCEPT
                     !.writes =
                        <<[committer |-> MIGRATION_BOT_USERNAME,
                           exp_id |-> item.id,
                           cmd |-> CMD_MIGRATE_STATES_SCHEMA_TO_LATEST_VERSION,
                           from_version |-> UNICODE(item.states_schema_version),
                           to_version |-> UNICODE(CURRENT_STATE_SCHEMA_VERSION)]>>]
             ELSE r

\* Mutant: the map runs the loop without the break.
ExplorationMigrationAuditJob_map_NoBreak(item, inp) ==
    IF item.deleted THEN NoResult
    ELSE MigrationAuditLoopNoBreak(item, inp, item.states_schema_version,
                                   NoResult)

ExplorationMigrationAuditJob_map(item, inp) ==
    IF item.deleted THEN NoResult
    ELSE MigrationAuditLoop(item, inp, item.states_schema_version, NoResult)

-----------------------------------------------------------------------------
(* ExplorationMigrationJobManager                                          *)

ValidationFailureMessage(item) ==
    <<"Exploration", " ">> \o UNICODE(item.id)
        \o <<" ", "failed non-strict validation:", " ", "e">>

\* The arguments of the exp_services.update_exploration call.
MigrationCommit(item) ==
    [committer |-> MIGRATION_BOT_USERNAME,
     exp_id |-> item.id,
     cmd |-> CMD_MIGRATE_STATES_SCHEMA_TO_LATEST_VERSION,
     from_version |-> UNICODE(item.states_schema_version),
     to_version |-> UNICODE(CURRENT_STATE_SCHEMA_VERSION)]

MigrationWrite(item, calls) ==
    [NoResult EXCEPT
       !.calls = Append(calls, "update_exploration"),
       !.writes = <<MigrationCommit(item)>>,
       !.emits = <<Emit(<<"SUCCESS">>, UNICODE(item.id))>>]

\* Mutant: no check of item.deleted.
ExplorationMigrationJobManager_map_NoDeletedCheck(item, inp) ==
    LET loaded == <<"get_exploration_by_id">>
        validated == <<"get_exploration_by_id", "validate">>
    IN  IF ~inp.loadable THEN Raise(loaded)
        ELSE IF ~inp.valid
        THEN [NoResult EXCEPT !.calls = validated,
                              !.logs = <<ValidationFailureMessage(item)>>]
        ELSE IF item.states_schema_version # CURRENT_STATE_SCHEMA_VERSION
        THEN MigrationWrite(item, validated)
        ELSE [NoResult EXCEPT !.calls = validated]

\* Mutant: the version comparison is dropped, every valid record is written.
ExplorationMigrationJobManager_map_AlwaysWrites(item, inp) ==
    LET loaded == <<"get_exploration_by_id">>
        validated == <<"get_exploration_by_id", "validate">>
    IN  IF item.deleted THEN NoResult
        ELSE IF ~inp.loadable THEN Raise(loaded)
        ELSE IF ~inp.valid
        THEN [NoResult EXCEPT !.calls = validated,
                              !.logs = <<ValidationFailureMessage(item)>>]
        ELSE MigrationWrite(item, validated)

\* Mutant: the except branch logs but does not return.
ExplorationMigrationJobManager_map_NoReturnOnInvalid(item, inp) ==
    LET loaded == <<"get_exploration_by_id">>
        validated == <<"get_exploration_by_id", "validate">>
    IN  IF item.deleted THEN NoResult
        ELSE IF ~inp.loadable THEN Raise(loaded)
        ELSE LET logs == IF inp.valid THEN <<>>
                         ELSE <<ValidationFailureMessage(item)>>
             IN  IF item.states_schema_version # CURRENT_STATE_SCHEMA_VERSION
                 THEN [MigrationWrite(item, validated) EXCEPT !.logs = logs]
                 ELSE [NoResult EXCEPT !.calls = validated, !.logs = logs]

\* Mutant: SUCCESS is yielded for every valid record, written or not.
ExplorationMigrationJobManager_map_SuccessUnindented(item, inp) ==
    LET loaded == <<"get_exploration_by_id">>
        validated == <<"get_exploration_by_id", "validate">>
    IN  IF item.deleted THEN NoResult
        ELSE IF ~inp.loadable THEN Raise(loaded)
        ELSE IF ~inp.valid
        THEN [NoResult EXCEPT !.calls = validated,
                              !.logs = <<ValidationFailureMessage(item)>>]
        ELSE IF item.states_schema_version # CURRENT_STATE_SCHEMA_VERSION
        THEN MigrationWrite(item, validated)
        ELSE [NoResult EXCEPT
                !.calls = validated,
                !.emits = <<Emit(<<"SUCCESS">>, UNICODE(item.id))>>]

ExplorationMigrationJobManager_map(item, inp) ==
    LET loaded == <<"get_exploration_by_id">>
        validated == <<"get_exploration_by_id", "validate">>
    IN  IF item.deleted THEN NoResult
        ELSE IF ~inp.loadable THEN Raise(loaded)
        ELSE IF ~inp.valid
        THEN [NoResult EXCEPT !.calls = validated,
                              !.logs = <<ValidationFailureMessage(item)>>]
        ELSE IF item.states_schema_version # CURRENT_STATE_SCHEMA_VERSION
        THEN MigrationWrite(item, validated)
        ELSE [NoResult EXCEPT !.calls = validated]

-----------------------------------------------------------------------------
(* ExplorationMathSvgFilenameValidationOneOffJob                           *)

\* error_list of a state whose html holds n invalid math tags.
ErrorList(n) == [k \in 1..n |-> <<"invalid tag">>]

\* The states, in iteration order, whose error list is not empty.
StatesWithErrors(inp) ==
    SelectIndices(NumStates, [s \in StateNames |-> inp.state_errs[s] > 0])

InvalidTagsInfo(inp, state_name) ==
    [state_name |-> state_name,
     error_list |-> ErrorList(inp.state_errs[state_name]),
     no_of_invalid_tags |-> inp.state_errs[state_name]]

ExplorationMathSvgFilenameValidationOneOffJob_map(item, inp) ==
    IF item.deleted THEN NoResult
    ELSE IF ~inp.loadable THEN Raise(<<"get_exploration_from_model">>)
    ELSE LET bad == StatesWithErrors(inp)
             invalid_tags_info_in_exp ==
                 [k \in 1..Len(bad) |-> InvalidTagsInfo(inp, bad[k])]
             calls == <<"get_exploration_from_model",
                        "validate_svg_filenames_in_math_rich_text">>
         IN  IF Len(invalid_tags_info_in_exp) > 0
             THEN [NoResult EXCEPT
                     !.calls = calls,
                     !.emits = <<Emit(<<"Found invalid tags">>,
                                      <<UNICODE(item.id),
                                        invalid_tags_info_in_exp>>)>>]
             ELSE [NoResult EXCEPT !.calls = calls]

-----------------------------------------------------------------------------
(* ExplorationMockMathMigrationOneOffJob                                   *)

MockMathKey(item, exploration_status) ==
    <<"exp_id:", " ">> \o UNICODE(item.id)
        \o <<",", " ", "exp_status:", " ", exploration_status, " ",
             "failed validation after migration">>

ExplorationMockMathMigrationOneOffJob_map(item, inp) ==
    IF item.deleted THEN NoResult
    ELSE IF ~inp.loadable THEN Raise(<<"get_exploration_from_model">>)
    ELSE IF ~inp.rights_exists
    THEN Raise(<<"get_exploration_from_model", "get_exploration_rights">>)
    ELSE LET bad == StatesWithErrors(inp)
         IN  [NoResult EXCEPT
                !.calls = <<"get_exploration_from_model",
                            "get_exploration_rights",
                            "add_math_content_to_math_rte_components">>,
                !.emits = [k \in 1..Len(bad) |->
                             Emit(MockMathKey(item, inp.rights_status),
                                  InvalidTagsInfo(inp, bad[k]))]]

-----------------------------------------------------------------------------
(* ExplorationMathRichTextInfoModelGenerationOneOffJob                     *)

ExplorationMathRichTextInfoModelGenerationOneOffJob_map(item, inp) ==
    IF item.deleted THEN NoResult
    ELSE IF ~inp.loadable THEN Raise(<<"get_exploration_from_model">>)
    ELSE IF ~inp.valid
    THEN [NoResult EXCEPT
            !.calls = <<"get_exploration_from_model", "validate">>,
            !.logs = <<ValidationFailureMessage(item)>>,
            !.emits = <<Emit(<<"validation_error">>,
                             ValidationFailureMessage(item))>>]
    ELSE LET calls == <<"get_exploration_from_model", "validate",
                        "get_latex_strings_without_svg_from_html">>
         IN  IF Len(inp.latex) > 0
             THEN [NoResult EXCEPT
                     !.calls = calls,
                     !.emits = <<Emit(_SUCCESS_KEY,
                                      <<UNICODE(item.id), inp.latex>>)>>]
             ELSE [NoResult EXCEPT !.calls = calls]

-----------------------------------------------------------------------------
(* ExplorationMathRichTextInfoModelDeletionOneOffJob                       *)

\* Mutant: the pair is yielded but the model is not deleted.
ExplorationMathRichTextInfoModelDeletionOneOffJob_map_NoDelete(item, inp) ==
    [NoResult EXCEPT !.emits = <<Emit(<<"model_deleted">>, 1)>>]

ExplorationMathRichTextInfoModelDeletionOneOffJob_map(item, inp) ==
    [NoResult EXCEPT
       !.deletes = TRUE,
       !.emits = <<Emit(<<"model_deleted">>, 1)>>]

-----------------------------------------------------------------------------
(* ViewableExplorationsAuditJob                                            *)

ViewableExplorationsAuditJob_map(item, inp) ==
    IF item.deleted THEN NoResult
    ELSE IF ~inp.rights_exists
    THEN [NoResult EXCEPT !.calls = <<"get_exploration_rights">>]
    ELSE IF /\ inp.rights_status = ACTIVITY_STATUS_PRIVATE
            /\ inp.viewable_if_private
    THEN [NoResult EXCEPT
            !.calls = <<"get_exploration_rights">>,
            !.emits = <<Emit(UNICODE(item.id), <<"title">>)>>]
    ELSE [NoResult EXCEPT !.calls = <<"get_exploration_rights">>]

-----------------------------------------------------------------------------
(* HintsAuditOneOffJob.  state_errs[s] is the number of hints of state s.  *)

HintsAuditOneOffJob_map(item, inp) ==
    IF item.deleted THEN NoResult
    ELSE IF ~inp.loadable THEN Raise(<<"get_exploration_from_model">>)
    ELSE LET hinted == StatesWithErrors(inp)
         IN  [NoResult EXCEPT
                !.calls = <<"get_exploration_from_model">>,
                !.emits = [k \in 1..Len(hinted) |->
                             Emit(UNICODE(inp.state_errs[hinted[k]]),
                                  UNICODE(item.id) \o <<" ">>
                                      \o <<"state">> \o UNICODE(hinted[k]))]]

-----------------------------------------------------------------------------
(* ExplorationContentValidationJobForCKEditor                              *)

LoadErrorKey == <<"Error", " ", "e", " ", "when loading exploration">>

\* The keys of err_dict, in iteration order, whose list is not empty.
KeysWithErrors(inp) ==
    SelectIndices(Len(ErrKeys),
                  [k \in 1..Len(ErrKeys) |-> inp.err_dict[k] # <<>>])

CKEditorKey(item, k) ==
    <<ErrKeys[k], " ", "Exp Id:", " ">> \o UNICODE(item.id)

\* Mutant: get_exploration_from_model is called outside the try block.
ExplorationContentValidationJobForCKEditor_map_NoTry(item, inp) ==
    IF item.deleted THEN NoResult
    ELSE IF ~inp.loadable THEN Raise(<<"get_exploration_from_model">>)
    ELSE LET bad == KeysWithErrors(inp)
         IN  [NoResult EXCEPT
                !.calls = <<"get_exploration_from_model", "validate_rte_format">>,
                !.emits = [k \in 1..Len(bad) |->
                             Emit(CKEditorKey(item, bad[k]),
                                  inp.err_dict[bad[k]])]]

ExplorationContentValidationJobForCKEditor_map(item, inp) ==
    IF item.deleted THEN NoResult
    ELSE IF ~inp.loadable
    THEN [NoResult EXCEPT
            !.calls = <<"get_exploration_from_model">>,
            !.emits = <<Emit(LoadErrorKey, <<UNICODE(item.id)>>)>>]
    ELSE LET bad == KeysWithErrors(inp)
         IN  [NoResult EXCEPT
                !.calls = <<"get_exploration_from_model", "validate_rte_format">>,
                !.emits = [k \in 1..Len(bad) |->
                             Emit(CKEditorKey(item, bad[k]),
                                  inp.err_dict[bad[k]])]]

-----------------------------------------------------------------------------
(* RTECustomizationArgsValidationOneOffJob.  A key of err_dict whose list  *)
(* is empty stands for a key the dictionary does not hold.                 *)

ExpIdMarker(item) == <<"Exp ID:", " ">> \o UNICODE(item.id)

RTECustomizationArgsValidationOneOffJob_map(item, inp) ==
    IF item.deleted THEN NoResult
    ELSE IF ~inp.loadable
    THEN [NoResult EXCEPT
            !.calls = <<"get_exploration_from_model">>,
            !.emits = <<Emit(LoadErrorKey, <<UNICODE(item.id)>>)>>]
    ELSE LET present == KeysWithErrors(inp)
         IN  [NoResult EXCEPT
                !.calls = <<"get_exploration_from_model",
                            "validate_customization_args">>,
                !.emits = [k \in 1..Len(present) |->
                             Emit(<<ErrKeys[present[k]]>>,
                                  Append(inp.err_dict[present[k]],
                                         ExpIdMarker(item)))]]

-----------------------------------------------------------------------------
(* The map of each job.                                                    *)

JobMap(j, item, inp) ==
    CASE j = FirstPublishedJob ->
            ExplorationFirstPublishedOneOffJob_map(item, inp)
      [] j = ValidityJob -> ExplorationValidityJobManager_map(item, inp)
      [] j = MigrationAuditJob -> ExplorationMigrationAuditJob_map(item, inp)
      [] j = MigrationJob -> ExplorationMigrationJobManager_map(item, inp)
      [] j = MathSvgFilenameJob ->
            ExplorationMathSvgFilenameValidationOneOffJob_map(item, inp)
      [] j = MockMathMigrationJob ->
            ExplorationMockMathMigrationOneOffJob_map(item, inp)
      [] j = MathInfoGenerationJob ->
            ExplorationMathRichTextInfoModelGenerationOneOffJob_map(item, inp)
      [] j = MathInfoDeletionJob ->
            ExplorationMathRichTextInfoModelDeletionOneOffJob_map(item, inp)
      [] j = ViewableAuditJob -> ViewableExplorationsAuditJob_map(item, inp)
      [] j = HintsAuditJob -> HintsAuditOneOffJob_map(item, inp)
      [] j = CKEditorJob ->
            ExplorationContentValidationJobForCKEditor_map(item, inp)
      [] j = RTEJob -> RTECustomizationArgsValidationOneOffJob_map(item, inp)

-----------------------------------------------------------------------------
(* The reduce of each job.  The engine hands reduce the values as strings: *)
(* an integer as its decimal string, any other value v as the string       *)
(* [py_repr |-> v], which literal_eval_value reads back.                   *)
(* The result of one reduce call:                                          *)
(*   outputs  the (key, value) pairs yielded, in order                     *)
(*   raised   an exception left the call                                   *)
(*   updates  the update_activity_first_published_msec calls made          *)
(*   saves    the ExplorationMathRichTextInfo objects saved                *)

literal_eval_value(s) == s.py_repr

NoOutput == [outputs |-> <<>>, raised |-> FALSE, updates |-> <<>>, saves |-> <<>>]

Yield(outputs) == [NoOutput EXCEPT !.outputs = outputs]

\* Mutant: the first value handed over is taken for the earliest.
ExplorationFirstPublishedOneOffJob_reduce_FirstValue(exp_id, stringified, rinp) ==
    IF ~rinp.rights_exists THEN NoOutput
    ELSE [NoOutput EXCEPT
            !.updates = <<[exp_id |-> exp_id,
                           first_published_msec |->
                               literal_eval(stringified[1])]>>]

ExplorationFirstPublishedOneOffJob_reduce(exp_id, stringified, rinp) ==
    IF ~rinp.rights_exists THEN NoOutput
    ELSE LET commit_times_msecs ==
                 [k \in 1..Len(stringified) |-> literal_eval(stringified[k])]
             first_published_msec == SeqMin(commit_times_msecs)
         IN  [NoOutput EXCEPT
                !.updates = <<[exp_id |-> exp_id,
                               first_published_msec |-> first_published_msec]>>]

\* Mutant: the pass-through reduce also reports the number of values.
PassThrough_reduce_TwoOutputs(key, values, rinp) ==
    Yield(<<Emit(key, values), Emit(<<"count">>, Len(values))>>)

\* The reduce of ExplorationValidityJobManager, of
\* ExplorationMockMathMigrationOneOffJob, of ViewableExplorationsAuditJob and
\* of HintsAuditOneOffJob.
PassThrough_reduce(key, values, rinp) == Yield(<<Emit(key, values)>>)

ExplorationMigrationAuditJob_reduce(key, values, rinp) ==
    IF key = <<"SUCCESS">> THEN Yield(<<Emit(key, Len(values))>>)
    ELSE Yield(<<Emit(key, values)>>)

ExplorationMigrationJobManager_reduce(key, values, rinp) ==
    Yield(<<Emit(key, Len(values))>>)

\* value with its 'no_of_invalid_tags' entry deleted.
WithoutCount(value) ==
    [state_name |-> value.state_name, error_list |-> value.error_list]

ExplorationMathSvgFilenameValidationOneOffJob_reduce(key, values, rinp) ==
    LET final_values == [k \in 1..Len(values) |-> literal_eval_value(values[k])]
        counts == [k \in 1..Len(final_values) |->
                     SeqSum([n \in 1..Len(final_values[k][2]) |->
                               final_values[k][2][n].no_of_invalid_tags])]
        exp_ids == {final_values[k][1] : k \in 1..Len(final_values)}
        last(e) == CHOOSE k \in 1..Len(final_values) :
                       /\ final_values[k][1] = e
                       /\ \A m \in (k + 1)..Len(final_values) :
                              final_values[m][1] # e
        invalid_tags_info ==
            [e \in exp_ids |->
               [n \in 1..Len(final_values[last(e)][2]) |->
                  WithoutCount(final_values[last(e)][2][n])]]
        final_value_dict ==
            [no_of_explorations_with_no_svgs |-> Len(final_values),
             no_of_invalid_tags |-> SeqSum(counts)]
    IN  Yield(<<Emit(<<"Overall result.">>, final_value_dict),
                Emit(<<"Detailed information on invalid tags. ">>,
                     invalid_tags_info)>>)

\* ExplorationMathRichTextInfo.get_svg_size_in_bytes: grows with the length
\* of the latex strings.
get_svg_size_in_bytes(latex_strings) == Len(Concat(latex_strings))

RECURSIVE get_longest_latex_expression(_)
get_longest_latex_expression(latex_strings) ==
    IF latex_strings = <<>> THEN <<>>
    ELSE LET rest == get_longest_latex_expression(Tail(latex_strings))
         IN  IF Len(Head(latex_strings)) >= Len(rest)
             THEN Head(latex_strings) ELSE rest

RECURSIVE MathInfoBatches(_, _)
\* The for loop of the reduce over final_values, acc the running values.
MathInfoBatches(final_values, acc) ==
    IF final_values = <<>> THEN acc
    ELSE LET latex == Head(final_values)[2]
             longest == get_longest_latex_expression(latex)
             size == acc.in_batch + get_svg_size_in_bytes(latex)
             over == size > MAX_SIZE_OF_MATH_SVGS_BATCH_BYTES
         IN  MathInfoBatches(
                 Tail(final_values),
                 [estimated_no_of_batches |->
                      acc.estimated_no_of_batches + (IF over THEN 1 ELSE 0),
                  in_batch |-> IF over THEN 0 ELSE size,
                  longest_raw_latex_string |->
                      IF Len(longest) >= Len(acc.longest_raw_latex_string)
                      THEN longest ELSE acc.longest_raw_latex_string,
                  total_number_of_svgs_required |->
                      acc.total_number_of_svgs_required + Len(latex)])

ExplorationMathRichTextInfoModelGenerationOneOffJob_reduce(key, values, rinp) ==
    IF key = _SUCCESS_KEY
    THEN LET final_values ==
                 [k \in 1..Len(values) |-> literal_eval_value(values[k])]
             acc == MathInfoBatches(
                        final_values,
                        [estimated_no_of_batches |-> 1, in_batch |-> 0,
                         longest_raw_latex_string |-> <<>>,
                         total_number_of_svgs_required |-> 0])
             final_value_dict ==
                 [estimated_no_of_batches |-> acc.estimated_no_of_batches,
                  longest_raw_latex_string |-> acc.longest_raw_latex_string,
                  number_of_explorations_having_math |-> Len(final_values),
                  total_number_of_svgs_required |->
                      acc.total_number_of_svgs_required]
         IN  [NoOutput EXCEPT
                !.saves = final_values,
                !.outputs = <<Emit(key, final_value_dict)>>]
    ELSE Yield(<<Emit(key, values)>>)

\* Mutant: the values are counted as they are summed, one too many.
ExplorationMathRichTextInfoModelDeletionOneOffJob_reduce_OffByOne(key, values, rinp) ==
    Yield(<<Emit(key, <<UNICODE(Len(values) + 1)
                          \o <<" ", "models successfully delelted.">>>>)>>)

ExplorationMathRichTextInfoModelDeletionOneOffJob_reduce(key, values, rinp) ==
    LET no_of_models_deleted ==
            SeqSum([k \in 1..Len(values) |-> literal_eval(values[k])])
    IN  Yield(<<Emit(key, <<UNICODE(no_of_models_deleted)
                              \o <<" ", "models successfully delelted.">>>>)>>)

\* The elements of the lists of final_values, as a set.
UnionOfLists(final_values) ==
    UNION {{final_values[k][n] : n \in 1..Len(final_values[k])} :
             k \in 1..Len(final_values)}

\* output_values is list(set), a list in no particular order: the value is
\* modelled as the set of its elements.
ExplorationContentValidationJobForCKEditor_reduce(key, values, rinp) ==
    LET final_values == [k \in 1..Len(values) |-> literal_eval_value(values[k])]
        output_values == UnionOfLists(final_values)
        exp_id_index == find(key, "Exp Id:")
    IN  IF exp_id_index = 0 - 1
        THEN Yield(<<Emit(key, output_values)>>)
        ELSE Yield(<<Emit(SliceTo(key, exp_id_index - 1),
                          output_values \cup {SliceFrom(key, exp_id_index)})>>)

\* The order of Python strings, by the code points of their tokens' first
\* characters.
TokenOrder ==
    <<" ">> \o Digit \o <<"Exp ID:", "err a", "err b">>

Rank(token) == CHOOSE i \in 1..Len(TokenOrder) : TokenOrder[i] = token

RECURSIVE StrLess(_, _)
StrLess(a, b) ==
    IF b = <<>> THEN FALSE
    ELSE IF a = <<>> THEN TRUE
    ELSE IF Rank(a[1]) # Rank(b[1]) THEN Rank(a[1]) < Rank(b[1])
    ELSE StrLess(Tail(a), Tail(b))

PairLess(p, q) ==
    \/ StrLess(p[1], q[1])
    \/ p[1] = q[1] /\ StrLess(p[2], q[2])

RECURSIVE Insert(_, _)
Insert(sorted, p) ==
    IF sorted = <<>> THEN <<p>>
    ELSE IF PairLess(p, Head(sorted)) THEN <<p>> \o sorted
    ELSE <<Head(sorted)>> \o Insert(Tail(sorted), p)

RECURSIVE sort(_)
\* list.sort of a list of pairs of strings.
sort(pairs) ==
    IF pairs = <<>> THEN <<>>
    ELSE Insert(sort(SubSeq(pairs, 1, Len(pairs) - 1)), pairs[Len(pairs)])

RTECustomizationArgsValidationOneOffJob_reduce(key, values, rinp) ==
    LET final_values == [k \in 1..Len(values) |-> literal_eval_value(values[k])]
        flattened_values == Concat(final_values)
    IN  IF \E i \in 1..Len(key) : key[i] = "when loading exploration"
        THEN Yield(<<Emit(key, flattened_values)>>)
        ELSE IF Len(flattened_values) % 2 = 1
        \* flattened_values[index + 1] is past the end: IndexError.
        THEN [NoOutput EXCEPT !.raised = TRUE]
        ELSE LET output_values ==
                     [k \in 1..(Len(flattened_values) \div 2) |->
                        <<flattened_values[2 * k], flattened_values[2 * k - 1]>>]
             IN  Yield(<<Emit(key, sort(output_values))>>)

JobReduce(j, key, values, rinp) ==
    CASE j = FirstPublishedJob ->
            ExplorationFirstPublishedOneOffJob_reduce(key, values, rinp)
      [] j \in {ValidityJob, MockMathMigrationJob, ViewableAuditJob,
                HintsAuditJob} ->
            PassThrough_reduce(key, values, rinp)
      [] j = MigrationAuditJob ->
            ExplorationMigrationAuditJob_reduce(key, values, rinp)
      [] j = MigrationJob ->
            ExplorationMigrationJobManager_reduce(key, values, rinp)
      [] j = MathSvgFilenameJob ->
            ExplorationMathSvgFilenameValidationOneOffJob_reduce(key, values, rinp)
      [] j = MathInfoGenerationJob ->
            ExplorationMathRichTextInfoModelGenerationOneOffJob_reduce(
                key, values, rinp)
      [] j = MathInfoDeletionJob ->
            ExplorationMathRichTextInfoModelDeletionOneOffJob_reduce(
                key, values, rinp)
      [] j = CKEditorJob ->
            ExplorationContentValidationJobForCKEditor_reduce(key, values, rinp)
      [] j = RTEJob ->
            RTECustomizationArgsValidationOneOffJob_reduce(key, values, rinp)

-----------------------------------------------------------------------------
(* The run of a job.                                                       *)

VARIABLES
    job,              \* the job that runs
    store,            \* the stored records of the kind the job scans, by id
    phase,            \* "map", "reduce", "done", or "failed" once a call raised
    cursor,           \* the id of the next record to scan
    fates,            \* one entry per map call made, in order
    emissions,        \* the pairs the map calls yielded, in order
    log,              \* the messages logged
    commits,          \* the update_exploration calls made
    reduced,          \* one entry per reduce call made, in order
    first_published   \* first_published_msec of each exploration's rights

vars ==
    <<job, store, phase, cursor, fates, emissions, log, commits, reduced,
      first_published>>

\* exp_services.update_exploration with a migration command: the stored
\* exploration is saved at the version the command names.
update_exploration(st, commit) ==
    [st EXCEPT ![commit.exp_id].states_schema_version =
                   literal_eval(commit.to_version)]

RECURSIVE ApplyWrites(_, _)
ApplyWrites(st, writes) ==
    IF writes = <<>> THEN st
    ELSE ApplyWrites(update_exploration(st, Head(writes)), Tail(writes))

\* item.delete(): the record leaves the store.
delete(st, item) == [i \in DOMAIN st \ {item.id} |-> st[i]]

\* The store after a map call with result r on item.
ApplyEffects(st, item, r) ==
    ApplyWrites(IF r.deletes THEN delete(st, item) ELSE st, r.writes)

\* The value of an emission as the engine hands it to reduce.
Stringify(j, v) ==
    IF j \in {FirstPublishedJob, MathInfoDeletionJob}
    THEN UNICODE(v) ELSE [py_repr |-> v]

Keys(ems) == {ems[i].key : i \in 1..Len(ems)}

ReducedKeys == {reduced[i].key : i \in 1..Len(reduced)}

\* The values emitted under key, in emission order, as strings.
ValuesOf(j, ems, key) ==
    LET at == SelectIndices(Len(ems), [i \in 1..Len(ems) |-> ems[i].key = key])
    IN  [k \in 1..Len(at) |-> Stringify(j, ems[at[k]].value)]

\* rights_manager.get_exploration_rights(exp_id, strict=False) in reduce.
ReduceInputs(j) ==
    IF j = FirstPublishedJob
    THEN {[rights_exists |-> b] : b \in BOOLEAN}
    ELSE {[rights_exists |-> TRUE]}

Init ==
    /\ job \in Jobs
    /\ store \in {st \in [Ids -> UNION {ItemsFor(job, i) : i \in Ids}] :
                    \A i \in Ids : st[i].id = i}
    /\ phase = "map"
    /\ cursor = 1
    /\ fates = <<>>
    /\ emissions = <<>>
    /\ log = <<>>
    /\ commits = <<>>
    /\ reduced = <<>>
    /\ first_published = [i \in Ids |-> 0]

\* The engine calls map on the next record.
Map ==
    /\ phase = "map"
    /\ cursor <= MaxRecords
    /\ \E inp \in InputsFor(job, store[cursor]) :
         LET item == store[cursor]
             r == JobMap(job, item, inp)
             after == ApplyEffects(store, item, r)
         IN  /\ store' = after
             /\ fates' = Append(fates, [item |-> item, inp |-> inp, result |-> r,
                                        before |-> store, after |-> after])
             /\ emissions' = emissions \o r.emits
             /\ log' = log \o r.logs
             /\ commits' = commits \o r.writes
             /\ phase' = IF r.raised THEN "failed"
                         ELSE IF cursor = MaxRecords THEN "reduce" ELSE "map"
    /\ cursor' = cursor + 1
    /\ UNCHANGED <<job, reduced, first_published>>

\* The engine calls reduce on the first key not yet reduced.
Reduce ==
    /\ phase = "reduce"
    /\ Keys(emissions) \ ReducedKeys # {}
    /\ LET first == CHOOSE i \in 1..Len(emissions) :
                        /\ emissions[i].key \notin ReducedKeys
                        /\ \A m \in 1..(i - 1) : emissions[m].key \in ReducedKeys
           key == emissions[first].key
           values == ValuesOf(job, emissions, key)
       IN  \E rinp \in ReduceInputs(job) :
             LET r == JobReduce(job, key, values, rinp)
             IN  /\ reduced' = Append(reduced, [key |-> key, values |-> values,
                                                rinp |-> rinp, result |-> r])
                 /\ first_published' =
                        IF r.updates = <<>> THEN first_published
                        ELSE [first_published EXCEPT
                                ![literal_eval(r.updates[1].exp_id)] =
                                    r.updates[1].first_published_msec]
                 /\ phase' = IF r.raised THEN "failed" ELSE "reduce"
    /\ UNCHANGED <<job, store, cursor, fates, emissions, log, commits>>

\* Every key has been reduced.
Finish ==
    /\ phase = "reduce"
    /\ Keys(emissions) \ ReducedKeys = {}
    /\ phase' = "done"
    /\ UNCHANGED <<job, store, cursor, fates, emissions, log, commits, reduced,
                   first_published>>

Next == Map \/ Reduce \/ Finish

Spec == Init /\ [][Next]_vars

-----------------------------------------------------------------------------
(* Vocabulary of the properties.                                           *)

Calls == 1..Len(fates)

\* The number of pairs of ems yielded under key.
CountKey(ems, key) == Cardinality({i \in 1..Len(ems) : ems[i].key = key})

\* A map call that left the store as it found it.
StoreUntouched(f) ==
    /\ f.after = f.before
    /\ f.result.writes = <<>>
    /\ ~f.result.deletes

\* The scan is over: map has been called on every record.
ScanOver == phase \in {"reduce", "done"} /\ Len(fates) = MaxRecords

-----------------------------------------------------------------------------
(* C1 *)

\* C1 as stated: in every job, map on a record whose deletion flag is set
\* yields no pair and neither writes to nor deletes from the store.
C1_DeletedRecordIsNoOpInEveryJob ==
    \A k \in Calls :
        fates[k].item.deleted =>
            fates[k].result.emits = <<>> /\ StoreUntouched(fates[k])

\* C1 amended: the jobs that scan ExplorationModel treat a deleted record as
\* a no-op whatever the collaborators would answer for it; the deletion job
\* deletes the record and yields ('model_deleted', 1) whatever its flag, and
\* the first-published job yields for a public snapshot whatever its flag.
C1_DeletedExplorationIsNoOp ==
    \A k \in Calls :
        LET f == fates[k] IN
        /\ (job \in ExplorationModelJobs /\ f.item.deleted) =>
              /\ f.result = NoResult
              /\ StoreUntouched(f)
        /\ job = MathInfoDeletionJob =>
              /\ f.result.emits = <<Emit(<<"model_deleted">>, 1)>>
              /\ f.item.id \notin DOMAIN f.after
        /\ job = FirstPublishedJob =>
              (f.result.emits # <<>> <=> f.item.status = ACTIVITY_STATUS_PUBLIC)

\* A deleted exploration below the current version that would load and
\* validate has been scanned by the migration job, and one that would not
\* load has been scanned too.
C1_Witness ==
    /\ job = MigrationJob
    /\ \E k \in Calls :
          /\ fates[k].item.deleted
          /\ fates[k].item.states_schema_version < CURRENT_STATE_SCHEMA_VERSION
          /\ fates[k].inp.loadable /\ fates[k].inp.valid
    /\ \E k \in Calls : fates[k].item.deleted /\ ~fates[k].inp.loadable

-----------------------------------------------------------------------------
(* C2 *)

\* C2: in the migration job, a record stored at the current state schema
\* version yields nothing and causes no update_exploration call, whether or
\* not it passes validation.
C2_CurrentVersionNotMigrated ==
    job = MigrationJob =>
        \A k \in Calls :
            fates[k].item.states_schema_version = CURRENT_STATE_SCHEMA_VERSION =>
                /\ fates[k].result.emits = <<>>
                /\ \A c \in 1..Len(fates[k].result.calls) :
                       fates[k].result.calls[c] # "update_exploration"
                /\ StoreUntouched(fates[k])

\* Two live records at the current version have been scanned, one passing
\* and one failing validation.
C2_Witness ==
    /\ job = MigrationJob
    /\ \E k1, k2 \in Calls :
          /\ \A k \in {k1, k2} :
                /\ ~fates[k].item.deleted
                /\ fates[k].inp.loadable
                /\ fates[k].item.states_schema_version
                       = CURRENT_STATE_SCHEMA_VERSION
          /\ fates[k1].inp.valid
          /\ ~fates[k2].inp.valid

-----------------------------------------------------------------------------
(* C3 *)

\* C3: in the migration job every update_exploration call comes after a
\* validate call of the same map call, and a live record that fails the
\* validation is skipped: one message is logged, nothing is written, the
\* stored version stays, nothing is yielded and the call does not raise.
C3_InvalidRecordSkipped ==
    job = MigrationJob =>
        \A k \in Calls :
            LET f == fates[k]
                calls == f.result.calls
            IN  /\ \A c \in 1..Len(calls) :
                       calls[c] = "update_exploration" =>
                           \E b \in 1..(c - 1) : calls[b] = "validate"
                /\ f.result.writes # <<>> =>
                       \E c \in 1..Len(calls) : calls[c] = "update_exploration"
                /\ (~f.item.deleted /\ f.inp.loadable /\ ~f.inp.valid) =>
                       /\ Len(f.result.logs) = 1
                       /\ StoreUntouched(f)
                       /\ f.after[f.item.id].states_schema_version
                              = f.item.states_schema_version
                       /\ f.result.emits = <<>>
                       /\ ~f.result.raised

\* A live record below the current version has failed validation, and
\* another has passed it and been written.
C3_Witness ==
    /\ job = MigrationJob
    /\ \E k \in Calls :
          /\ ~fates[k].item.deleted
          /\ fates[k].inp.loadable /\ ~fates[k].inp.valid
          /\ fates[k].item.states_schema_version < CURRENT_STATE_SCHEMA_VERSION
    /\ \E k \in Calls : fates[k].result.writes # <<>>

-----------------------------------------------------------------------------
(* C4 *)

\* The records the migration job wrote: those an update_exploration call
\* migrated from the version they were scanned at to the current version.
Migrated ==
    {i \in Ids :
       \E m \in 1..Len(commits), k \in Calls :
          /\ fates[k].item.id = i
          /\ commits[m].exp_id = i
          /\ commits[m].cmd = CMD_MIGRATE_STATES_SCHEMA_TO_LATEST_VERSION
          /\ commits[m].from_version
                 = UNICODE(fates[k].item.states_schema_version)
          /\ commits[m].to_version = UNICODE(CURRENT_STATE_SCHEMA_VERSION)
          /\ fates[k].item.states_schema_version # CURRENT_STATE_SCHEMA_VERSION}

-----------------------------------------------------------------------------
(* C5 *)

\* The count the deletion job's reduce reports: the leading number of its
\* message.
ReportedCount(output) ==
    literal_eval(SliceTo(output.value[1], find(output.value[1], " ")))

\* C5: after the deletion job has called map on N records, N pairs
\* ('model_deleted', 1) have been yielded and those N records are gone from
\* the store; the one reduce output, under 'model_deleted', reports N.
C5_DeletionJobCounts ==
    job = MathInfoDeletionJob =>
        /\ Len(emissions) = Len(fates)
        /\ \A n \in 1..Len(emissions) :
              emissions[n] = Emit(<<"model_deleted">>, 1)
        /\ DOMAIN store = Ids \ {fates[k].item.id : k \in Calls}
        /\ \A n \in 1..Len(reduced) :
              /\ reduced[n].key = <<"model_deleted">>
              /\ Len(reduced[n].result.outputs) = 1
              /\ reduced[n].result.outputs[1].key = <<"model_deleted">>
              /\ ReportedCount(reduced[n].result.outputs[1]) = MaxRecords
        /\ phase = "done" => Len(reduced) = 1 /\ DOMAIN store = {}

\* The deletion job is done after scanning every record.
C5_Witness ==
    /\ job = MathInfoDeletionJob
    /\ phase = "done"
    /\ Len(fates) = MaxRecords
    /\ Len(reduced) = 1

-----------------------------------------------------------------------------
(* C6 *)

ErrorEmittingJobs == {MigrationAuditJob, MathInfoGenerationJob, CKEditorJob, RTEJob}

SuccessKeys == {<<"SUCCESS">>, _SUCCESS_KEY}

Successes(r) == {n \in 1..Len(r.emits) : r.emits[n].key \in SuccessKeys}

Errors(r) == {n \in 1..Len(r.emits) : r.emits[n].key \notin SuccessKeys}

\* The fates a map call can end in.
SilentPass(r) == ~r.raised /\ r.emits = <<>>

SuccessEmission(r) ==
    ~r.raised /\ Cardinality(Successes(r)) = 1 /\ Errors(r) = {}

ErrorEmission(r) == ~r.raised /\ Errors(r) # {} /\ Successes(r) = {}

\* C6 as stated: in the error-emitting jobs every map call ends in a silent
\* pass, a success emission or an error emission.
C6_EveryRecordHasOneFate ==
    job \in ErrorEmittingJobs =>
        \A k \in Calls :
            \/ SilentPass(fates[k].result)
            \/ SuccessEmission(fates[k].result)
            \/ ErrorEmission(fates[k].result)

\* C6 amended: in the error-emitting jobs every map call that returns ends
\* in exactly one of silent pass, success emission and error emission, and
\* no call yields both a success and an error; the one call that does not
\* return is that of the math-info generation job on a live record that
\* fails to load, which raises before it yields anything.
C6_EveryReturningCallHasOneFate ==
    job \in ErrorEmittingJobs =>
        \A k \in Calls :
            LET f == fates[k]
                r == f.result
            IN  /\ ~(Successes(r) # {} /\ Errors(r) # {})
                /\ Cardinality(Successes(r)) <= 1
                /\ ~r.raised =>
                      \/ SilentPass(r) /\ ~SuccessEmission(r) /\ ~ErrorEmission(r)
                      \/ ~SilentPass(r) /\ SuccessEmission(r) /\ ~ErrorEmission(r)
                      \/ ~SilentPass(r) /\ ~SuccessEmission(r) /\ ErrorEmission(r)
                /\ r.raised <=>
                      /\ job = MathInfoGenerationJob
                      /\ ~f.item.deleted
                      /\ ~f.inp.loadable
                /\ r.raised => r.emits = <<>>

\* The audit job has scanned a record whose migration failed after a first
\* step succeeded, and a record whose migration succeeded.
C6_Witness ==
    /\ job = MigrationAuditJob
    /\ \E k \in Calls :
          /\ ErrorEmission(fates[k].result)
          /\ Len(fates[k].result.steps) > 1
    /\ \E k \in Calls : SuccessEmission(fates[k].result)

-----------------------------------------------------------------------------
(* C7 *)

\* A failure of the record's own, met by the map call: loading it raises,
\* it does not validate, or a migration step raises.
Fails(f) ==
    /\ ~f.item.deleted
    /\ \/ job \in {ValidityJob, MigrationJob, MathSvgFilenameJob,
                   MockMathMigrationJob, MathInfoGenerationJob, HintsAuditJob,
                   CKEditorJob, RTEJob} /\ ~f.inp.loadable
       \/ /\ job \in {MigrationJob, MathInfoGenerationJob}
          /\ f.inp.loadable /\ ~f.inp.valid
       \/ /\ job = ValidityJob
          /\ f.inp.loadable /\ f.inp.rights_exists
          /\ IF f.inp.rights_status = ACTIVITY_STATUS_PRIVATE
             THEN ~f.inp.valid ELSE ~f.inp.strict_valid
       \/ job = MigrationAuditJob /\ f.inp.fails # {}

\* C7 as stated: in every job a record's failure is caught in the map call
\* and reported as an emission; it never leaves map.
C7_EveryFailureIsAnEmission ==
    \A k \in Calls :
        Fails(fates[k]) =>
            /\ ~fates[k].result.raised
            /\ fates[k].result.emits # <<>>
            /\ (k = Len(fates) /\ reduced = <<>>) => phase # "failed"

\* The failures a map catches in a try block that yields.
CaughtAndEmitted(f) ==
    /\ ~f.item.deleted
    /\ \/ /\ job = ValidityJob
          /\ f.inp.loadable /\ f.inp.rights_exists
          /\ IF f.inp.rights_status = ACTIVITY_STATUS_PRIVATE
             THEN ~f.inp.valid ELSE ~f.inp.strict_valid
       \/ job = MigrationAuditJob /\ f.inp.fails # {}
       \/ job = MathInfoGenerationJob /\ f.inp.loadable /\ ~f.inp.valid
       \/ job \in {CKEditorJob, RTEJob} /\ ~f.inp.loadable

\* The key a caught failure is reported under.
ErrorKey(f) ==
    CASE job = ValidityJob -> UNICODE(f.item.id)
      [] job = MigrationAuditJob -> <<"MIGRATION_ERROR">>
      [] job = MathInfoGenerationJob -> <<"validation_error">>
      [] job \in {CKEditorJob, RTEJob} -> LoadErrorKey

\* The failures that leave map: a record that does not load, or whose
\* rights are missing, in a map that calls the loader outside any try block.
Propagates(f) ==
    /\ ~f.item.deleted
    /\ \/ /\ job \in {ValidityJob, MigrationJob, MathSvgFilenameJob,
                      MockMathMigrationJob, MathInfoGenerationJob, HintsAuditJob}
          /\ ~f.inp.loadable
       \/ job \in {ValidityJob, MockMathMigrationJob} /\ ~f.inp.rights_exists

\* C7 amended: a record's failure is caught in the map call and reported
\* as one emission under an error key where the failing call stands in a try
\* block that yields: a validation error in the validity job (under the
\* exploration id) and in the math-info generation job, a migration
\* exception in the audit job, a load exception in the CKEditor and RTE
\* jobs; the scan then goes on.  The migration job catches a validation
\* failure but only logs it, yielding nothing.  A load exception or missing
\* rights in the other maps leaves the map call, which yields nothing.
C7_CaughtFailuresAreEmissions ==
    \A k \in Calls :
        LET f == fates[k]
            r == f.result
        IN  /\ CaughtAndEmitted(f) =>
                  /\ ~r.raised
                  /\ CountKey(r.emits, ErrorKey(f)) = 1
                  /\ Len(r.emits) = 1
                  /\ (k = Len(fates) /\ reduced = <<>>) => phase # "failed"
            /\ (job = MigrationJob /\ ~f.item.deleted /\ f.inp.loadable
                    /\ ~f.inp.valid) =>
                  ~r.raised /\ r.emits = <<>> /\ Len(r.logs) = 1
            /\ r.raised <=> Propagates(f)
            /\ r.raised => r.emits = <<>> /\ phase = "failed" /\ k = Len(fates)
            /\ (phase = "failed" /\ reduced = <<>>) => fates[Len(fates)].result.raised

\* The CKEditor job caught a load exception on its first record and went
\* on to scan the second.
C7_Witness ==
    /\ job = CKEditorJob
    /\ Len(fates) = MaxRecords
    /\ ~fates[1].item.deleted
    /\ ~fates[1].inp.loadable
    /\ fates[1].result.emits # <<>>

-----------------------------------------------------------------------------
(* C8 *)

\* C8 as stated: in every job each reduce call yields exactly one pair,
\* under the key it was called with.
C8_ReduceYieldsOnePairUnderItsKey ==
    \A n \in 1..Len(reduced) :
        /\ Len(reduced[n].result.outputs) = 1
        /\ reduced[n].result.outputs[1].key = reduced[n].key

\* C8 amended: each reduce call yields exactly one pair under the key it
\* was called with, except that the first-published job's reduce yields
\* nothing; the math-svg-filename job's reduce yields two pairs, under
\* 'Overall result.' and 'Detailed information on invalid tags. '; the
\* CKEditor job's reduce, for a key holding 'Exp Id:', yields its one pair
\* under the part of the key before ' Exp Id:'; and the RTE job's reduce,
\* for a key that is no loading error, raises and yields nothing when the
\* flattened list has an odd number of elements.
C8_ReduceOutputsPerJob ==
    \A n \in 1..Len(reduced) :
        LET key == reduced[n].key
            r == reduced[n].result
            out == r.outputs
        IN  CASE job = FirstPublishedJob -> out = <<>> /\ ~r.raised
              [] job = MathSvgFilenameJob ->
                    /\ Len(out) = 2
                    /\ out[1].key = <<"Overall result.">>
                    /\ out[2].key = <<"Detailed information on invalid tags. ">>
                    /\ key \notin {out[1].key, out[2].key}
              [] job = CKEditorJob ->
                    /\ Len(out) = 1
                    /\ IF \E i \in 1..Len(key) : key[i] = "Exp Id:"
                       THEN /\ out[1].key # key
                            /\ out[1].key \o <<" ", "Exp Id:">>
                                   = SubSeq(key, 1, Len(out[1].key) + 2)
                            /\ \A i \in 1..Len(out[1].key) :
                                   out[1].key[i] # "Exp Id:"
                       ELSE out[1].key = key
              [] job = RTEJob ->
                    LET odd == Len(Concat([k \in 1..Len(reduced[n].values) |->
                                   reduced[n].values[k].py_repr])) % 2 = 1
                    IN  IF key # LoadErrorKey /\ odd
                        THEN r.raised /\ out = <<>>
                        ELSE ~r.raised /\ Len(out) = 1 /\ out[1].key = key
              [] OTHER ->
                    ~r.raised /\ Len(out) = 1 /\ out[1].key = key

\* The CKEditor job is done, having reduced a loading-error key and a key
\* that holds 'Exp Id:'.
C8_Witness ==
    /\ phase = "done"
    /\ job = CKEditorJob
    /\ \E n \in 1..Len(reduced) : reduced[n].key = LoadErrorKey
    /\ \E n \in 1..Len(reduced) :
          \E i \in 1..Len(reduced[n].key) : reduced[n].key[i] = "Exp Id:"

-----------------------------------------------------------------------------
(* C9 *)

-----------------------------------------------------------------------------
(* C10 *)

\* The decimal number that follows the token "failed migration to states v"
\* in an error message.
TargetVersion(message) ==
    LET at == find(message, "failed migration to states v") + 1
        colon == find(message, ":") + 1
    IN  literal_eval(SubSeq(message, at + 1, colon - 1))

\* The live records the audit job found to migrate without error.
AuditSuccesses ==
    {k \in Calls :
       /\ ~fates[k].item.deleted
       /\ fates[k].item.states_schema_version < CURRENT_STATE_SCHEMA_VERSION
       /\ fates[k].inp.fails = {}}

\* C10: the audit job's map on a live record at version v below the current
\* version c makes at most c - v migration steps, from v, v + 1, ... in
\* order; it yields ('SUCCESS', 1) once if every step succeeds and not
\* otherwise; if the step from w fails it yields one 'MIGRATION_ERROR'
\* naming version w + 1, makes no further step and yields no 'SUCCESS'.  A
\* record with v >= c yields nothing.  Reduce reports for 'SUCCESS' the
\* number of records that succeeded.
C10_AuditMap ==
    job = MigrationAuditJob =>
        /\ \A k \in Calls :
              LET f == fates[k]
                  r == f.result
                  v == f.item.states_schema_version
                  c == CURRENT_STATE_SCHEMA_VERSION
                  failed == {w \in v..(c - 1) : w \in f.inp.fails}
              IN  ~f.item.deleted =>
                    /\ Len(r.steps) <= (IF v < c THEN c - v ELSE 0)
                    /\ \A n \in 1..Len(r.steps) : r.steps[n] = v + n - 1
                    /\ CountKey(r.emits, <<"SUCCESS">>)
                           = (IF v < c /\ failed = {} THEN 1 ELSE 0)
                    /\ (v < c /\ failed = {}) =>
                           r.emits = <<Emit(<<"SUCCESS">>, 1)>>
                             /\ Len(r.steps) = c - v
                    /\ \A w \in failed :
                           /\ Len(r.emits) = 1
                           /\ r.emits[1].key = <<"MIGRATION_ERROR">>
                           /\ TargetVersion(r.emits[1].value) = w + 1
                           /\ r.steps[Len(r.steps)] = w
                    /\ v >= c => r.emits = <<>> /\ r.steps = <<>>
        /\ \A n \in 1..Len(reduced) :
              reduced[n].key = <<"SUCCESS">> =>
                  reduced[n].result.outputs
                      = <<Emit(<<"SUCCESS">>, Cardinality(AuditSuccesses))>>
        /\ (phase = "done" /\ AuditSuccesses # {}) =>
              \E n \in 1..Len(reduced) : reduced[n].key = <<"SUCCESS">>

\* The audit job is done: one record failed at its second step, one
\* succeeded, and reduce has reported both keys.
C10_Witness ==
    /\ job = MigrationAuditJob
    /\ phase = "done"
    /\ Len(reduced) = 2
    /\ \E k \in Calls :
          /\ fates[k].inp.fails # {}
          /\ Len(fates[k].result.steps) = 2
    /\ AuditSuccesses # {}

-----------------------------------------------------------------------------
(* C11 *)

\* The position of key among the keys of err_dict.
ErrKeyIndex(key) == CHOOSE i \in 1..Len(ErrKeys) : <<ErrKeys[i]>> = key

\* The error messages the RTE job's map found under key in the exploration
\* that marker names.
FoundIn(marker, key) ==
    UNION {{fates[k].inp.err_dict[ErrKeyIndex(key)][m] :
              m \in 1..Len(fates[k].inp.err_dict[ErrKeyIndex(key)])} :
             k \in {c \in Calls : /\ ~fates[c].item.deleted
                                  /\ fates[c].inp.loadable
                                  /\ ExpIdMarker(fates[c].item) = marker}}

\* C11: the RTE job's reduce, for a key that is no loading error, never
\* indexes past the end of the flattened list and yields one sorted list of
\* pairs, each an 'Exp ID: ...' marker followed by an error message that map
\* found under that key in that exploration, whatever map emitted.
C11_RTEReducePairsMarkerWithMessage ==
    job = RTEJob =>
        \A n \in 1..Len(reduced) :
            reduced[n].key # LoadErrorKey =>
                /\ ~reduced[n].result.raised
                /\ Len(reduced[n].result.outputs) = 1
                /\ LET pairs == reduced[n].result.outputs[1].value
                   IN  /\ \A i \in 1..(Len(pairs) - 1) :
                              ~PairLess(pairs[i + 1], pairs[i])
                       /\ \A i \in 1..Len(pairs) :
                              /\ pairs[i][1][1] = "Exp ID:"
                              /\ pairs[i][2][1] # "Exp ID:"
                              /\ pairs[i][2]
                                     \in FoundIn(pairs[i][1], reduced[n].key)

-----------------------------------------------------------------------------
(* C12 *)

\* The creation times, in milliseconds, of the public snapshots scanned for
\* the exploration whose id string is exp_id.
PublicTimes(exp_id) ==
    {fates[k].item.created_on * 1000 :
       k \in {c \in Calls : /\ UNICODE(fates[c].item.exp_id) = exp_id
                            /\ fates[c].item.status = ACTIVITY_STATUS_PUBLIC}}

Earliest(times) == CHOOSE t \in times : \A u \in times : t <= u

\* C12: the first-published job's map yields (exploration id, creation time
\* in milliseconds) for a snapshot exactly when its status is public; reduce
\* sets the exploration's first-published time to the least of the times
\* yielded for that id, in whatever order they arrive, and makes no update
\* when the exploration has no rights record.
C12_FirstPublishedIsEarliestPublicSnapshot ==
    job = FirstPublishedJob =>
        /\ \A k \in Calls :
              LET f == fates[k] IN
              IF f.item.status = ACTIVITY_STATUS_PUBLIC
              THEN /\ Len(f.result.emits) = 1
                   /\ f.result.emits[1].key = UNICODE(f.item.exp_id)
                   /\ f.result.emits[1].value = f.item.created_on * 1000
              ELSE f.result.emits = <<>>
        /\ \A n \in 1..Len(reduced) :
              LET e == reduced[n] IN
              /\ Len(e.values) = Cardinality({k \in Calls :
                     /\ UNICODE(fates[k].item.exp_id) = e.key
                     /\ fates[k].item.status = ACTIVITY_STATUS_PUBLIC})
              /\ IF e.rinp.rights_exists
                 THEN /\ e.result.updates =
                            <<[exp_id |-> e.key,
                               first_published_msec |->
                                   Earliest(PublicTimes(e.key))]>>
                      /\ first_published[literal_eval(e.key)]
                             = Earliest(PublicTimes(e.key))
                 ELSE /\ e.result.updates = <<>>
                      /\ first_published[literal_eval(e.key)] = 0
        /\ \A i \in Ids :
              (\A n \in 1..Len(reduced) : reduced[n].key # UNICODE(i)) =>
                  first_published[i] = 0

\* Two public snapshots of one exploration were scanned, the later one
\* first, and reduce has set the exploration's first-published time; the
\* job is done.
C12_Witness ==
    /\ job = FirstPublishedJob
    /\ phase = "done"
    /\ \E k1, k2 \in Calls :
          /\ k1 < k2
          /\ fates[k1].item.exp_id = fates[k2].item.exp_id
          /\ fates[k1].item.status = ACTIVITY_STATUS_PUBLIC
          /\ fates[k2].item.status = ACTIVITY_STATUS_PUBLIC
          /\ fates[k1].item.created_on > fates[k2].item.created_on
          /\ first_published[fates[k1].item.exp_id]
                 = fates[k2].item.created_on * 1000

====
